---- MODULE Spec2Model ----
(***************************************************************************)
(* Session market-profile construction of market_analyzer.py.              *)
(*                                                                         *)
(* Units.  Prices are integers in units of 0.05, so that PRICE_STEP = 1.0  *)
(* is 20 units and one decimal (Close.round(1)) is 2 units.  Timestamps    *)
(* are minutes since Monday 00:00 of the week the tick file starts in, so  *)
(* that the day of week is (Timestamp \div 1440) % 7 and the time of day   *)
(* is Timestamp % 1440.                                                    *)
(***************************************************************************)
EXTENDS Integers, Sequences, FiniteSets, TLC

VARIABLES
    pc,          \* position of the batch in __main__
    tick_df,     \* data_df: the loaded ticks, in file order
    session_df,  \* session summary table, or NoDf
    tpo_locals,  \* per session, the locals calculate_tpo_metrics built
    h_pc,        \* position inside the value-area / single-print part
    h_valid,     \* valid_tpo_counts: ascending <<level, count>> pairs
    h_st,        \* locals of the value-area loop
    h_out,       \* metrics derived from h_valid
    sim,         \* one simulated trade of a back-test and its price stream
    tpo_period_minutes  \* the period calculate_tpo_metrics is called with

vars == <<pc, tick_df, session_df, tpo_locals, h_pc, h_valid, h_st, h_out, sim,
          tpo_period_minutes>>

\* NaN / None: no price or time is negative.
NaN == 0 - 1

\* No trade is being simulated.
SimIdle == [state |-> "idle"]

----------------------------------------------------------------------------
(* Program constants (config.py), in the units above.                      *)

TPO_PERIOD_MINUTES == 30
PRICE_STEP == 20
VALUE_AREA_PERCENT == 68
INITIAL_BALANCE_PERIODS == 2
SINGLE_PRINT_THRESHOLD == 3
SINGLE_PRINT_MIN_SPAN == 400
POOR_EXTREME_TPO_THRESHOLD == 2
NumTpoLetters == 52

MinutesPerDay == 24 * 60

HM(h, m) == h * 60 + m

SESSIONS ==
    << [name |-> "Asia",           start |-> HM(0, 0),   end |-> HM(9, 0)],
       [name |-> "London",         start |-> HM(7, 0),   end |-> HM(16, 0)],
       [name |-> "NewYork",        start |-> HM(13, 30), end |-> HM(21, 0)],
       [name |-> "LDN_NY_Overlap", start |-> HM(13, 30), end |-> HM(16, 0)],
       [name |-> "Overnight",      start |-> HM(21, 0),  end |-> HM(0, 0)],
       [name |-> "Weekend-Sat",    start |-> HM(0, 0),   end |-> HM(0, 0)],
       [name |-> "Weekend-Sun",    start |-> HM(0, 0),   end |-> HM(0, 0)] >>

----------------------------------------------------------------------------
(* Bounds of the model.                                                    *)

MaxTicks == 2
MaxTime == 4
MaxPrice == 2

\* Ticks arrive on a quarter-hour grid that starts Monday 06:45: the grid
\* straddles the 07:00 opening of London inside Asia and the TPO period
\* edges 07:00 and 07:30.
TimeBase == HM(6, 45)
TimeStep == TPO_PERIOD_MINUTES \div 2
TickTimes == { TimeBase + k * TimeStep : k \in 0..MaxTime }

\* Prices lie on a half-step grid, so that both on-grid and off-grid
\* highs and lows occur.
HalfStep == PRICE_STEP \div 2
TickPrices == { k * HalfStep : k \in 0..MaxPrice }

\* Single trades (High = Low = Close) have prices in steps of 0.05 and
\* volumes 0..MaxVolume; they arrive at 06:45 (Asia) or 07:00 (Asia and
\* London).
MaxClose == 3
MaxVolume == 2
TradeTimes == { TimeBase, TimeBase + TimeStep }

\* Histograms given directly to the value-area and single-print code: up
\* to MaxLevels levels with counts 1..MaxCount; successive levels are 1, 2
\* or (min span - 1) price steps apart.
MaxLevels == 4
MaxCount == 2
LevelGaps == { 1, 2, SINGLE_PRINT_MIN_SPAN \div PRICE_STEP - 1 }

----------------------------------------------------------------------------
(* Generic helpers.                                                        *)

SetMin(S) == CHOOSE x \in S : \A y \in S : x <= y
SetMax(S) == CHOOSE x \in S : \A y \in S : x >= y

RECURSIVE SeqSum(_)
SeqSum(s) == IF s = <<>> THEN 0 ELSE Head(s) + SeqSum(Tail(s))

Range(s) == { s[i] : i \in DOMAIN s }

\* The elements of a finite set of integers in ascending order.
RECURSIVE SortedSeq(_)
SortedSeq(S) ==
    IF S = {} THEN <<>>
    ELSE LET m == SetMin(S) IN <<m>> \o SortedSeq(S \ {m})

----------------------------------------------------------------------------
(* get_active_sessions                                                     *)

MutSessionActiveClosedEnd(s, t) ==
    IF s.start <= s.end
    THEN s.start <= t /\ t <= s.end
    ELSE t >= s.start \/ t <= s.end

SessionActive(s, t) ==
    IF s.start <= s.end
    THEN s.start <= t /\ t < s.end
    ELSE t >= s.start \/ t < s.end

get_active_sessions(timestamp) ==
    LET t  == timestamp % MinutesPerDay
        wd == (timestamp \div MinutesPerDay) % 7
    IN  IF wd = 5 THEN <<"Weekend-Sat">>
        ELSE IF wd = 6 THEN <<"Weekend-Sun">>
        ELSE LET names == [i \in DOMAIN SESSIONS |-> SESSIONS[i].name]
                 Active(n) == \E i \in DOMAIN SESSIONS :
                                 SESSIONS[i].name = n /\ SessionActive(SESSIONS[i], t)
             IN  SelectSeq(names, Active)

DateOf(timestamp) == timestamp \div MinutesPerDay

----------------------------------------------------------------------------
(* load_and_preprocess_data, one row of the file at a time; __main__ adds  *)
(* the Sessions column.                                                    *)

MakeTick(ts, high, low, close, volume) ==
    [Timestamp |-> ts, High |-> high, Low |-> low, Close |-> close,
     Volume |-> volume, Date |-> DateOf(ts), Sessions |-> get_active_sessions(ts)]

LastTime == IF tick_df = <<>> THEN TimeBase ELSE tick_df[Len(tick_df)].Timestamp

\* A bar of the tick file: Low <= Close <= High, one unit of volume.
ReadBar ==
    /\ pc = "load"
    /\ Len(tick_df) < MaxTicks
    /\ \E ts \in TickTimes, low \in TickPrices, high \in TickPrices :
          /\ ts >= LastTime
          /\ low <= high
          /\ tick_df' = Append(tick_df, MakeTick(ts, high, low, high, 1))
    /\ UNCHANGED <<pc, session_df, tpo_locals, h_pc, h_valid, h_st, h_out, sim,
                   tpo_period_minutes>>

\* A single trade of the tick file: High = Low = Close.
ReadTrade ==
    /\ pc = "load"
    /\ Len(tick_df) < MaxTicks
    /\ \E ts \in TradeTimes, close \in 0..MaxClose, volume \in 0..MaxVolume :
          /\ ts >= LastTime
          /\ tick_df' = Append(tick_df, MakeTick(ts, close, close, close, volume))
    /\ UNCHANGED <<pc, session_df, tpo_locals, h_pc, h_valid, h_st, h_out, sim,
                   tpo_period_minutes>>

\* Ticks of a whole week: on Monday, Friday, Saturday and Sunday, at the
\* minutes around every edge of the session windows.
WeekDays == {0, 4, 5, 6}
WeekClock ==
    { HM(0, 0),   HM(6, 59),  HM(7, 0),   HM(8, 59),  HM(9, 0),   HM(13, 29),
      HM(13, 30), HM(15, 59), HM(16, 0),  HM(20, 59), HM(21, 0),  HM(23, 59) }
WeekTimes == { d * MinutesPerDay + t : d \in WeekDays, t \in WeekClock }

ReadWeekTick ==
    /\ pc = "load"
    /\ Len(tick_df) < MaxTicks
    /\ \E ts \in WeekTimes :
          /\ IF tick_df = <<>> THEN TRUE ELSE ts >= tick_df[Len(tick_df)].Timestamp
          /\ tick_df' = Append(tick_df, MakeTick(ts, HalfStep, 0, HalfStep, 1))
    /\ UNCHANGED <<pc, session_df, tpo_locals, h_pc, h_valid, h_st, h_out, sim,
                   tpo_period_minutes>>

----------------------------------------------------------------------------
(* calculate_session_summary                                               *)

TicksOf(df, date, name) ==
    SelectSeq(df, LAMBDA t : t.Date = date /\ name \in Range(t.Sessions))

\* df.explode('Sessions') then groupby(['Date', 'Sessions'])
SessionKeys(df) ==
    UNION { { <<df[i].Date, n>> : n \in Range(df[i].Sessions) } : i \in DOMAIN df }

Column(rows, field) == { rows[i][field] : i \in DOMAIN rows }

RECURSIVE SumVolume(_)
SumVolume(rows) ==
    IF rows = <<>> THEN 0 ELSE Head(rows).Volume + SumVolume(Tail(rows))

\* The aggregations skip NaN: max and min of the values that are not NaN,
\* 'last' the last value that is not NaN, NaN when there is none; 'size'
\* counts every row.
NotNa(values) == values \ {NaN}

LastNotNa(rows, field) ==
    LET held == { i \in DOMAIN rows : rows[i][field] # NaN }
    IN  IF held = {} THEN NaN ELSE rows[SetMax(held)][field]

SummaryRow(rows) ==
    [SessionStart  |-> SetMin(Column(rows, "Timestamp")),
     SessionEnd    |-> SetMax(Column(rows, "Timestamp")),
     SessionHigh   |-> IF NotNa(Column(rows, "High")) = {} THEN NaN
                       ELSE SetMax(NotNa(Column(rows, "High"))),
     SessionLow    |-> IF NotNa(Column(rows, "Low")) = {} THEN NaN
                       ELSE SetMin(NotNa(Column(rows, "Low"))),
     SessionClose  |-> LastNotNa(rows, "Close"),
     SessionVolume |-> SumVolume(rows),
     SessionTicks  |-> Len(rows)]

\* A row of the derived TPO columns of a session that was not computed.
NaTpo ==
    [TPO_POC |-> NaN, VAH |-> NaN, VAL |-> NaN, IB_High |-> NaN, IB_Low |-> NaN,
     PoorHigh |-> FALSE, PoorHighPrice |-> NaN, PoorLow |-> FALSE,
     PoorLowPrice |-> NaN, SinglePrints |-> FALSE, SP_High |-> NaN, SP_Low |-> NaN]

\* The session table: its index (keys), the summary row of each key, the
\* names of the derived columns that exist, and their values.  The table
\* without keys stands for None.
Table(keys, row, columns, vpoc, tpo) ==
    [keys |-> keys, row |-> row, columns |-> columns, SessionVPOC |-> vpoc, tpo |-> tpo]

NoDf == Table({}, <<>>, {}, <<>>, <<>>)

calculate_session_summary(df) ==
    LET keys == SessionKeys(df)
    IN  IF keys = {} THEN NoDf
        ELSE Table(keys,
                   [k \in keys |-> SummaryRow(TicksOf(df, k[1], k[2]))],
                   {},
                   [k \in keys |-> NaN],
                   [k \in keys |-> NaTpo])

CalculateSessionSummary ==
    /\ pc = "load"
    /\ session_df' = calculate_session_summary(tick_df)
    /\ pc' = IF session_df' = NoDf THEN "done" ELSE "vpoc"
    /\ UNCHANGED <<tick_df, tpo_locals, h_pc, h_valid, h_st, h_out, sim,
                   tpo_period_minutes>>

\* Sessions a pass with date_limit processes: those of the first
\* date_limit dates, or all of them (date_limit = 0 stands for None).
SessionsToProcess(df, date_limit) ==
    LET all_dates == SortedSeq({ k[1] : k \in df.keys })
        n == IF date_limit > Len(all_dates) THEN Len(all_dates) ELSE date_limit
        dates_to_process == { all_dates[i] : i \in 1..n }
    IN  IF date_limit > 0
        THEN { k \in df.keys : k[1] \in dates_to_process }
        ELSE df.keys

----------------------------------------------------------------------------
(* calculate_session_vpoc                                                  *)

\* Close.round(1): to the nearest multiple of 0.1, halves to the even one.
DecimalUnit == PRICE_STEP \div 10
Round1(c) ==
    LET q == c \div DecimalUnit
        r == c % DecimalUnit
    IN  IF 2 * r < DecimalUnit THEN q * DecimalUnit
        ELSE IF 2 * r > DecimalUnit THEN (q + 1) * DecimalUnit
        ELSE IF q % 2 = 0 THEN q * DecimalUnit ELSE (q + 1) * DecimalUnit

\* groupby(Close.round(1))['Volume'].sum(), keys ascending
VolumeAtPrice(session_ticks) ==
    LET levels == SortedSeq({ Round1(session_ticks[i].Close) : i \in DOMAIN session_ticks })
    IN  [i \in DOMAIN levels |->
           [level  |-> levels[i],
            volume |-> SumVolume(SelectSeq(session_ticks,
                                   LAMBDA t : Round1(t.Close) = levels[i]))]]

\* Series.idxmax(): the first position holding the maximum
IdxMaxBy(rows, field) ==
    LET m == SetMax(Column(rows, field))
    IN  SetMin({ i \in DOMAIN rows : rows[i][field] = m })

\* SessionVpocOf returning the last (highest) level holding the maximum.
MutSessionVpocLast(session_ticks) ==
    IF session_ticks = <<>> THEN NaN
    ELSE LET volume_at_price == VolumeAtPrice(session_ticks)
             m == SetMax(Column(volume_at_price, "volume"))
         IN  IF m > 0
             THEN volume_at_price[SetMax({ i \in DOMAIN volume_at_price :
                                            volume_at_price[i].volume = m })].level
             ELSE NaN

SessionVpocOf(session_ticks) ==
    IF session_ticks = <<>> THEN NaN
    ELSE LET volume_at_price == VolumeAtPrice(session_ticks)
         IN  IF SetMax(Column(volume_at_price, "volume")) > 0
             THEN volume_at_price[IdxMaxBy(volume_at_price, "volume")].level
             ELSE NaN

calculate_session_vpoc(df_ticks, df, date_limit) ==
    LET todo  == SessionsToProcess(df, date_limit)
        vpocs == [k \in todo |-> SessionVpocOf(TicksOf(df_ticks, k[1], k[2]))]
        column == IF "SessionVPOC" \notin df.columns
                  THEN [k \in df.keys |-> IF k \in todo THEN vpocs[k] ELSE NaN]
                  ELSE \* Series.update: only non-null new values overwrite
                       [k \in df.keys |->
                          IF k \in todo /\ vpocs[k] # NaN THEN vpocs[k]
                          ELSE df.SessionVPOC[k]]
    IN  Table(df.keys, df.row, df.columns \cup {"SessionVPOC"}, column, df.tpo)

CalculateSessionVpoc ==
    /\ pc = "vpoc"
    /\ session_df' = calculate_session_vpoc(tick_df, session_df, 0)
    /\ pc' = "tpo"
    /\ UNCHANGED <<tick_df, tpo_locals, h_pc, h_valid, h_st, h_out, sim,
                   tpo_period_minutes>>

----------------------------------------------------------------------------
(* calculate_tpo_metrics: bins and letters                                 *)

\* np.floor(x / step) * step and np.ceil(x / step) * step; also
\* Timestamp.floor / Timestamp.ceil
FloorTo(x, step) == (x \div step) * step
CeilTo(x, step) == ((x + step - 1) \div step) * step

\* pd.date_range(start.floor(p), end.ceil(p), freq=p): the bin edges
time_bins_of(session_start, session_end) ==
    LET first == FloorTo(session_start, tpo_period_minutes)
        last  == CeilTo(session_end, tpo_period_minutes)
    IN  [i \in 1..((last - first) \div tpo_period_minutes + 1) |->
           first + (i - 1) * tpo_period_minutes]

\* pd.cut(..., right=False, include_lowest=True): the 1-based position of
\* the letter of the bin [edge_i, edge_i+1) holding ts, NaN outside them;
\* a time equal to the last edge is outside.
CutLetter(ts, time_bins) ==
    LET ids == Cardinality({ i \in DOMAIN time_bins : time_bins[i] <= ts })
    IN  IF ids = 0 \/ ids = Len(time_bins) THEN NaN ELSE ids

\* session_ticks with its TPO_Letter column, rows without a letter dropped
LabelledTicks(df_ticks, session_start, session_end, time_bins) ==
    LET in_window == SelectSeq(df_ticks,
                        LAMBDA t : t.Timestamp >= session_start
                                   /\ t.Timestamp <= session_end)
        labelled  == [i \in DOMAIN in_window |->
                        [Timestamp  |-> in_window[i].Timestamp,
                         High       |-> in_window[i].High,
                         Low        |-> in_window[i].Low,
                         TPO_Letter |-> CutLetter(in_window[i].Timestamp, time_bins)]]
    IN  SelectSeq(labelled, LAMBDA t : t.TPO_Letter # NaN)

----------------------------------------------------------------------------
(* calculate_tpo_metrics: the profile                                      *)

\* np.arange(floor(min), ceil(max) + step, step)
PriceLevelsOf(session_ticks) ==
    LET lo == FloorTo(SetMin(Column(session_ticks, "Low")), PRICE_STEP)
        hi == CeilTo(SetMax(Column(session_ticks, "High")), PRICE_STEP)
    IN  { lo + i * PRICE_STEP : i \in 0..((hi - lo) \div PRICE_STEP) }

PeriodTicks(session_ticks, letter) ==
    SelectSeq(session_ticks, LAMBDA t : t.TPO_Letter = letter)

\* TouchedLevels with the rounded-up high taken as touched (<= high_idx).
MutTouchedLevelsInclusive(period_ticks, price_levels) ==
    IF period_ticks = <<>> THEN {}
    ELSE LET period_low  == SetMin(Column(period_ticks, "Low"))
             period_high == SetMax(Column(period_ticks, "High"))
             low_idx     == FloorTo(period_low, PRICE_STEP)
             high_idx    == CeilTo(period_high, PRICE_STEP)
         IN  { l \in price_levels : l >= low_idx /\ l <= high_idx }

\* The levels one bin touches: low rounded down (inclusive) to high
\* rounded up (exclusive).
TouchedLevels(period_ticks, price_levels) ==
    IF period_ticks = <<>> THEN {}
    ELSE LET period_low  == SetMin(Column(period_ticks, "Low"))
             period_high == SetMax(Column(period_ticks, "High"))
             low_idx     == FloorTo(period_low, PRICE_STEP)
             high_idx    == CeilTo(period_high, PRICE_STEP)
         IN  { l \in price_levels : l >= low_idx /\ l < high_idx }

\* One pass of the loop over the letters: every touched level gets one
\* more TPO and the letter.
AddPeriod(profile, letter, touched_levels) ==
    [tpo_counts       |-> [l \in DOMAIN profile.tpo_counts |->
                             IF l \in touched_levels
                             THEN profile.tpo_counts[l] + 1
                             ELSE profile.tpo_counts[l]],
     letters_at_price |-> [l \in DOMAIN profile.letters_at_price |->
                             IF l \in touched_levels
                             THEN profile.letters_at_price[l] \cup {letter}
                             ELSE profile.letters_at_price[l]]]

\* ProfileLoop counting once per tick instead of once per bin: the third
\* argument walks the ticks.
RECURSIVE MutProfileLoopPerTick(_, _, _, _, _)
MutProfileLoopPerTick(session_ticks, price_levels, letter, num_periods, profile) ==
    IF letter > Len(session_ticks) THEN profile
    ELSE MutProfileLoopPerTick(session_ticks, price_levels, letter + 1, num_periods,
            AddPeriod(profile, session_ticks[letter].TPO_Letter,
                      TouchedLevels(<<session_ticks[letter]>>, price_levels)))

RECURSIVE ProfileLoop(_, _, _, _, _)
ProfileLoop(session_ticks, price_levels, letter, num_periods, profile) ==
    IF letter > num_periods THEN profile
    ELSE ProfileLoop(session_ticks, price_levels, letter + 1, num_periods,
            AddPeriod(profile, letter,
                      TouchedLevels(PeriodTicks(session_ticks, letter), price_levels)))

BuildProfile(session_ticks, num_periods) ==
    LET price_levels == PriceLevelsOf(session_ticks)
    IN  ProfileLoop(session_ticks, price_levels, 1, num_periods,
            [tpo_counts       |-> [l \in price_levels |-> 0],
             letters_at_price |-> [l \in price_levels |-> {}]])

\* tpo_counts[tpo_counts > 0], ascending in price
ValidTpoCounts(tpo_counts) ==
    LET levels == SortedSeq({ l \in DOMAIN tpo_counts : tpo_counts[l] > 0 })
    IN  [i \in DOMAIN levels |-> [level |-> levels[i], count |-> tpo_counts[levels[i]]]]

----------------------------------------------------------------------------
(* calculate_tpo_metrics: POC and value area                               *)

TotalTpos(valid) == SeqSum([i \in DOMAIN valid |-> valid[i].count])

\* int(total_tpos * value_area_percent)
TargetVaTpos(valid) == (TotalTpos(valid) * VALUE_AREA_PERCENT) \div 100

\* PocIndexLoc returning the last position holding the maximum.
MutPocIndexLast(valid) ==
    SetMax({ i \in DOMAIN valid : valid[i].count = SetMax(Column(valid, "count")) })

\* valid_tpo_counts.idxmax(), as a position (1-based)
PocIndexLoc(valid) == IdxMaxBy(valid, "count")

\* The locals of the expansion before the loop: only the POC is taken.
\* VaStart beginning at the lowest level instead of the POC.
MutVaStartAtLowest(valid) ==
    [va_indices      |-> {1},
     current_va_tpos |-> valid[1].count,
     upper_idx       |-> 2,
     lower_idx       |-> 0,
     broke           |-> FALSE]

VaStart(valid) ==
    LET poc_index_loc == PocIndexLoc(valid)
    IN  [va_indices      |-> {poc_index_loc},
         current_va_tpos |-> valid[poc_index_loc].count,
         upper_idx       |-> poc_index_loc + 1,
         lower_idx       |-> poc_index_loc - 1,
         broke           |-> FALSE]

VaIdle ==
    [va_indices |-> {}, current_va_tpos |-> 0, upper_idx |-> 0, lower_idx |-> 0,
     broke |-> FALSE]

\* VaContinue going on while the target is merely reached (<=).
MutVaContinueInclusive(valid, st) ==
    /\ ~st.broke
    /\ st.current_va_tpos <= TargetVaTpos(valid)
    /\ (st.lower_idx >= 1 \/ st.upper_idx <= Len(valid))

\* The while condition (positions are 1-based here).
VaContinue(valid, st) ==
    /\ ~st.broke
    /\ st.current_va_tpos < TargetVaTpos(valid)
    /\ (st.lower_idx >= 1 \/ st.upper_idx <= Len(valid))

TakeUpper(valid, st) ==
    [st EXCEPT !.va_indices      = @ \cup {st.upper_idx},
               !.current_va_tpos = @ + valid[st.upper_idx].count,
               !.upper_idx       = @ + 1]

TakeLower(valid, st) ==
    [st EXCEPT !.va_indices      = @ \cup {st.lower_idx},
               !.current_va_tpos = @ + valid[st.lower_idx].count,
               !.lower_idx       = @ - 1]

\* VaStep taking the lower level on a tie (> instead of >=).
MutVaStepLowerOnTie(valid, st) ==
    LET add_upper  == st.upper_idx <= Len(valid)
        add_lower  == st.lower_idx >= 1
        tpos_upper == IF add_upper THEN valid[st.upper_idx].count ELSE 0 - 1
        tpos_lower == IF add_lower THEN valid[st.lower_idx].count ELSE 0 - 1
    IN  IF tpos_upper > tpos_lower /\ add_upper THEN TakeUpper(valid, st)
        ELSE IF add_lower THEN TakeLower(valid, st)
        ELSE IF add_upper THEN TakeUpper(valid, st)
        ELSE [st EXCEPT !.broke = TRUE]

\* One pass of the while body.
VaStep(valid, st) ==
    LET add_upper  == st.upper_idx <= Len(valid)
        add_lower  == st.lower_idx >= 1
        tpos_upper == IF add_upper THEN valid[st.upper_idx].count ELSE 0 - 1
        tpos_lower == IF add_lower THEN valid[st.lower_idx].count ELSE 0 - 1
    IN  IF tpos_upper >= tpos_lower /\ add_upper THEN TakeUpper(valid, st)
        ELSE IF tpos_lower > tpos_upper /\ add_lower THEN TakeLower(valid, st)
        ELSE IF add_lower THEN TakeLower(valid, st)
        ELSE IF add_upper THEN TakeUpper(valid, st)
        ELSE [st EXCEPT !.broke = TRUE]

RECURSIVE VaLoop(_, _)
VaLoop(valid, st) ==
    IF VaContinue(valid, st) THEN VaLoop(valid, VaStep(valid, st)) ELSE st

\* val_level, vah_level from the taken positions
ValOf(valid, st) == valid[SetMin(st.va_indices)].level
VahOf(valid, st) == valid[SetMax(st.va_indices)].level

----------------------------------------------------------------------------
(* calculate_tpo_metrics: single prints                                    *)

SinglePrintLevels(valid) ==
    LET only == SelectSeq(valid, LAMBDA e : e.count = 1)
    IN  [i \in DOMAIN only |-> only[i].level]

\* The loop over np.diff(single_print_levels): d <= price_step + tol with
\* tol = price_step * 0.51.  Returns <<consec, max_consec>> after diff i.
RECURSIVE ConsecLoop(_, _, _, _)
ConsecLoop(levels, i, consec, max_consec) ==
    IF i >= Len(levels) THEN <<consec, max_consec>>
    ELSE LET d == levels[i + 1] - levels[i]
         IN  IF 100 * d <= 151 * PRICE_STEP
             THEN ConsecLoop(levels, i + 1, consec + 1, max_consec)
             ELSE ConsecLoop(levels, i + 1, 1,
                             IF consec > max_consec THEN consec ELSE max_consec)

MaxConsec(levels) ==
    LET r == ConsecLoop(levels, 1, 1, 1)
    IN  IF r[1] > r[2] THEN r[1] ELSE r[2]

SpanUsd(levels) ==
    IF Len(levels) > 1 THEN levels[Len(levels)] - levels[1] ELSE 0

\* HasSinglePrints requiring both clauses (and instead of or).
MutHasSinglePrintsAnd(valid) ==
    LET single_print_levels == SinglePrintLevels(valid)
    IN  /\ single_print_levels # <<>>
        /\ MaxConsec(single_print_levels) >= SINGLE_PRINT_THRESHOLD
        /\ SpanUsd(single_print_levels) >= SINGLE_PRINT_MIN_SPAN

HasSinglePrints(valid) ==
    LET single_print_levels == SinglePrintLevels(valid)
    IN  /\ single_print_levels # <<>>
        /\ \/ MaxConsec(single_print_levels) >= SINGLE_PRINT_THRESHOLD
           \/ SpanUsd(single_print_levels) >= SINGLE_PRINT_MIN_SPAN

----------------------------------------------------------------------------
(* calculate_tpo_metrics: initial balance and poor extremes                *)

\* session_ticks[TPO_Letter.isin(tpo_letters[:ib_periods])]
IbTicks(session_ticks) ==
    SelectSeq(session_ticks, LAMBDA t : t.TPO_Letter <= INITIAL_BALANCE_PERIODS)

IbHigh(session_ticks) ==
    LET ib_ticks == IbTicks(session_ticks)
    IN  IF ib_ticks # <<>> THEN SetMax(Column(ib_ticks, "High")) ELSE NaN

IbLow(session_ticks) ==
    LET ib_ticks == IbTicks(session_ticks)
    IN  IF ib_ticks # <<>> THEN SetMin(Column(ib_ticks, "Low")) ELSE NaN

\* The extreme price floored to its level; poor when the level is in the
\* profile and holds enough letters.
IsPoorExtreme(extreme_price, letters_at_price) ==
    LET level == FloorTo(extreme_price, PRICE_STEP)
    IN  /\ level \in DOMAIN letters_at_price
        /\ Cardinality(letters_at_price[level]) >= POOR_EXTREME_TPO_THRESHOLD

----------------------------------------------------------------------------
(* calculate_tpo_metrics: one session, then the table                      *)

\* The letters and the profile of one session; available is FALSE on each
\* of the early exits of the loop body.
SessionProfile(df_ticks, session_data) ==
    LET time_bins     == time_bins_of(session_data.SessionStart, session_data.SessionEnd)
        num_periods   == Len(time_bins) - 1
        session_ticks == LabelledTicks(df_ticks, session_data.SessionStart,
                                       session_data.SessionEnd, time_bins)
    IN  IF \/ Len(time_bins) < 2
           \/ num_periods > NumTpoLetters
           \/ session_ticks = <<>>
        THEN [available |-> FALSE, num_periods |-> num_periods,
              session_ticks |-> <<>>, profile |-> <<>>]
        ELSE [available |-> TRUE, num_periods |-> num_periods,
              session_ticks |-> session_ticks,
              profile |-> BuildProfile(session_ticks, num_periods)]

\* The result row of a session whose profile has a level with a count.
TpoResult(sp, session_data) ==
    LET valid       == ValidTpoCounts(sp.profile.tpo_counts)
        st          == VaLoop(valid, VaStart(valid))
        poor_high   == IsPoorExtreme(session_data.SessionHigh,
                                     sp.profile.letters_at_price)
        poor_low    == IsPoorExtreme(session_data.SessionLow,
                                     sp.profile.letters_at_price)
        has_sp      == HasSinglePrints(valid)
        sp_levels   == SinglePrintLevels(valid)
    IN  [TPO_POC       |-> valid[PocIndexLoc(valid)].level,
         VAH           |-> VahOf(valid, st),
         VAL           |-> ValOf(valid, st),
         IB_High       |-> IbHigh(sp.session_ticks),
         IB_Low        |-> IbLow(sp.session_ticks),
         PoorHigh      |-> poor_high,
         PoorHighPrice |-> IF poor_high THEN session_data.SessionHigh ELSE NaN,
         PoorLow       |-> poor_low,
         PoorLowPrice  |-> IF poor_low THEN session_data.SessionLow ELSE NaN,
         SinglePrints  |-> has_sp,
         SP_High       |-> IF has_sp THEN sp_levels[Len(sp_levels)] ELSE NaN,
         SP_Low        |-> IF has_sp THEN sp_levels[1] ELSE NaN]

\* session_df[col] = tpo_df[col]: a session that was not processed has no
\* row in tpo_df and gets NaN, which astype(bool) turns into True.
UnprocessedTpo ==
    [NaTpo EXCEPT !.PoorHigh = TRUE, !.PoorLow = TRUE, !.SinglePrints = TRUE]

\* The index of the session table is sorted by date, then by session name.
SessionNameOrder ==
    << "Asia", "LDN_NY_Overlap", "London", "NewYork", "Overnight",
       "Weekend-Sat", "Weekend-Sun" >>

NameRank(n) == CHOOSE i \in DOMAIN SessionNameOrder : SessionNameOrder[i] = n

KeyBefore(a, b) ==
    \/ a[1] < b[1]
    \/ a[1] = b[1] /\ NameRank(a[2]) < NameRank(b[2])

RECURSIVE IterRows(_)
IterRows(keys) ==
    IF keys = {} THEN <<>>
    ELSE LET first == CHOOSE k \in keys : \A o \in keys \ {k} : KeyBefore(k, o)
         IN  <<first>> \o IterRows(keys \ {first})

\* The locals of the loop that survive from one session to the next:
\* sp_high_price and sp_low_price are bound only inside the branch taken
\* when the profile has a level with a count.
UnboundSp == [bound |-> FALSE, sp_high_price |-> NaN, sp_low_price |-> NaN]

LoopStart == [tpo_results |-> <<>>, locals |-> <<>>, sp |-> UnboundSp, raised |-> FALSE]

\* LoopBody leaving early without a row for the session.
MutLoopBodyNoRowOnEarlyExit(acc, df_ticks, session_data, k) ==
    LET spf   == SessionProfile(df_ticks, session_data)
        put(r) == (k :> r) @@ acc.tpo_results
        seen  == (k :> spf) @@ acc.locals
    IN  IF ~spf.available
        THEN [acc EXCEPT !.locals = seen]
        ELSE IF ValidTpoCounts(spf.profile.tpo_counts) = <<>>
        THEN IF acc.sp.bound
             THEN [acc EXCEPT !.tpo_results =
                                  put([NaTpo EXCEPT !.SP_High = acc.sp.sp_high_price,
                                                    !.SP_Low  = acc.sp.sp_low_price]),
                              !.locals = seen]
             ELSE [acc EXCEPT !.raised = TRUE]
        ELSE LET r == TpoResult(spf, session_data)
             IN  [tpo_results |-> put(r),
                  locals      |-> seen,
                  sp          |-> [bound |-> TRUE, sp_high_price |-> r.SP_High,
                                   sp_low_price |-> r.SP_Low],
                  raised      |-> FALSE]

\* One iteration of the loop over the sessions to process.  A session that
\* leaves early gets the row without the single-print prices.  A session
\* whose profile has no level with a count reads sp_high_price and
\* sp_low_price as the last session that bound them left them; if none
\* did, the read raises NameError and the call ends.
LoopBody(acc, df_ticks, session_data, k) ==
    LET spf   == SessionProfile(df_ticks, session_data)
        put(r) == (k :> r) @@ acc.tpo_results
        seen  == (k :> spf) @@ acc.locals
    IN  IF ~spf.available
        THEN [acc EXCEPT !.tpo_results = put(NaTpo), !.locals = seen]
        ELSE IF ValidTpoCounts(spf.profile.tpo_counts) = <<>>
        THEN IF acc.sp.bound
             THEN [acc EXCEPT !.tpo_results =
                                  put([NaTpo EXCEPT !.SP_High = acc.sp.sp_high_price,
                                                    !.SP_Low  = acc.sp.sp_low_price]),
                              !.locals = seen]
             ELSE [acc EXCEPT !.raised = TRUE]
        ELSE LET r == TpoResult(spf, session_data)
             IN  [tpo_results |-> put(r),
                  locals      |-> seen,
                  sp          |-> [bound |-> TRUE, sp_high_price |-> r.SP_High,
                                   sp_low_price |-> r.SP_Low],
                  raised      |-> FALSE]

RECURSIVE TpoLoop(_, _, _, _)
TpoLoop(acc, df_ticks, df, todo) ==
    IF todo = <<>> \/ acc.raised THEN acc
    ELSE TpoLoop(LoopBody(acc, df_ticks, df.row[Head(todo)], Head(todo)),
                 df_ticks, df, Tail(todo))

TpoLoopOf(df_ticks, df, date_limit) ==
    TpoLoop(LoopStart, df_ticks, df, IterRows(SessionsToProcess(df, date_limit)))

\* The table the call returns when the loop ends without an exception.
calculate_tpo_metrics(df_ticks, df, date_limit) ==
    LET out == TpoLoopOf(df_ticks, df, date_limit)
    IN  Table(df.keys, df.row, df.columns \cup {"TPO"}, df.SessionVPOC,
              [k \in df.keys |->
                 IF k \in DOMAIN out.tpo_results
                 THEN out.tpo_results[k]
                 ELSE UnprocessedTpo])

\* What the loop body built for each session it processed.
TpoLocals(df_ticks, df, date_limit) == TpoLoopOf(df_ticks, df, date_limit).locals

\* __main__ does not catch an exception of the call: the run ends with the
\* session table as it was and nothing is saved.
CalculateTpoMetrics ==
    /\ pc = "tpo"
    /\ tpo_locals' = TpoLocals(tick_df, session_df, 0)
    /\ IF TpoLoopOf(tick_df, session_df, 0).raised
       THEN /\ pc' = "raised"
            /\ UNCHANGED session_df
       ELSE /\ pc' = "done"
            /\ session_df' = calculate_tpo_metrics(tick_df, session_df, 0)
    /\ UNCHANGED <<tick_df, h_pc, h_valid, h_st, h_out, sim,
                   tpo_period_minutes>>

----------------------------------------------------------------------------
(* The batch: the file is read, then the summary, the VPOC and the TPO      *)
(* metrics are computed in this order.                                      *)

HistIdle ==
    /\ h_pc = "idle"
    /\ h_valid = <<>>
    /\ h_st = VaIdle
    /\ h_out = NaTpo

Init ==
    /\ pc = "load"
    /\ tick_df = <<>>
    /\ session_df = NoDf
    /\ tpo_locals = <<>>
    /\ HistIdle
    /\ sim = SimIdle
    /\ tpo_period_minutes = TPO_PERIOD_MINUTES

Next ==
    \/ ReadBar
    \/ CalculateSessionSummary
    \/ CalculateSessionVpoc
    \/ CalculateTpoMetrics

Spec == Init /\ [][Next]_vars

\* The same batch reading a file of single trades.
NextTrades ==
    \/ ReadTrade
    \/ CalculateSessionSummary
    \/ CalculateSessionVpoc
    \/ CalculateTpoMetrics

SpecTrades == Init /\ [][NextTrades]_vars

\* The same batch reading a file that spans the week, up to the session
\* summary.
NextWeek ==
    \/ ReadWeekTick
    \/ CalculateSessionSummary

SpecWeek == Init /\ [][NextWeek]_vars

\* The records of the file as read_csv returns them: the timestamp text
\* parses to a time or not (NaN), the price text to a number or not (NaN).
\* to_datetime(errors='coerce') and dropna(subset=['Timestamp']) drop the
\* record without a time; to_numeric(errors='coerce') leaves NaN in the
\* price columns and the record stays.
load_and_preprocess_data(df, record) ==
    IF record.Timestamp = NaN THEN df
    ELSE Append(df, MakeTick(record.Timestamp, record.price, record.price,
                             record.price, record.Volume))

ReadRecord ==
    /\ pc = "load"
    /\ Len(tick_df) < MaxTicks
    /\ \E ts \in TradeTimes \cup {NaN}, price \in (0..MaxClose) \cup {NaN},
          volume \in 1..MaxVolume :
          /\ IF tick_df = <<>> \/ ts = NaN THEN TRUE
             ELSE ts >= tick_df[Len(tick_df)].Timestamp
          /\ tick_df' = load_and_preprocess_data(tick_df,
                           [Timestamp |-> ts, price |-> price, Volume |-> volume])
    /\ UNCHANGED <<pc, session_df, tpo_locals, h_pc, h_valid, h_st, h_out, sim,
                   tpo_period_minutes>>

NextRaw ==
    \/ ReadRecord
    \/ CalculateSessionSummary

SpecRaw == Init /\ [][NextRaw]_vars

\* A debug run with TPO_DATE_LIMIT set, after a full run: the file spans
\* Monday and Tuesday, the TPO columns exist for all sessions, and
\* calculate_tpo_metrics is called again with a date limit.
TwoDayTimes == { d * MinutesPerDay + t : d \in {0, 1}, t \in {HM(6, 45), HM(7, 15)} }

ReadTwoDayBar ==
    /\ pc = "load"
    /\ Len(tick_df) < MaxTicks
    /\ \E ts \in TwoDayTimes, low \in TickPrices, high \in TickPrices :
          /\ IF tick_df = <<>> THEN TRUE ELSE ts >= tick_df[Len(tick_df)].Timestamp
          /\ low <= high
          /\ tick_df' = Append(tick_df, MakeTick(ts, high, low, high, 1))
    /\ UNCHANGED <<pc, session_df, tpo_locals, h_pc, h_valid, h_st, h_out, sim,
                   tpo_period_minutes>>

RecalculateTpoMetrics ==
    /\ pc = "done"
    /\ session_df # NoDf
    /\ \E date_limit \in {1, 2} :
          /\ tpo_locals' = TpoLocals(tick_df, session_df, date_limit)
          /\ IF TpoLoopOf(tick_df, session_df, date_limit).raised
             THEN /\ pc' = "raised"
                  /\ UNCHANGED session_df
             ELSE /\ pc' = "limited"
                  /\ session_df' = calculate_tpo_metrics(tick_df, session_df, date_limit)
    /\ UNCHANGED <<tick_df, h_pc, h_valid, h_st, h_out, sim, tpo_period_minutes>>

NextLimit ==
    \/ ReadTwoDayBar
    \/ CalculateSessionSummary
    \/ CalculateSessionVpoc
    \/ CalculateTpoMetrics
    \/ RecalculateTpoMetrics

SpecLimit == Init /\ [][NextLimit]_vars

\* A recomputation pass: after the VPOC column exists, the file is loaded
\* again with the volume of one trade revised, and calculate_session_vpoc
\* runs again on the same session table, with or without a date limit.
ReloadRevisedFile ==
    /\ pc = "tpo"
    /\ \E i \in DOMAIN tick_df, volume \in 0..MaxVolume :
          /\ volume # tick_df[i].Volume
          /\ tick_df' = [tick_df EXCEPT ![i].Volume = volume]
    /\ pc' = "reloaded"
    /\ UNCHANGED <<session_df, tpo_locals, h_pc, h_valid, h_st, h_out, sim,
                   tpo_period_minutes>>

RecomputeSessionVpoc ==
    /\ pc = "reloaded"
    /\ \E date_limit \in {0, 1} :
          session_df' = calculate_session_vpoc(tick_df, session_df, date_limit)
    /\ pc' = "recomputed"
    /\ UNCHANGED <<tick_df, tpo_locals, h_pc, h_valid, h_st, h_out, sim,
                   tpo_period_minutes>>

NextRecompute ==
    \/ ReadTrade
    \/ CalculateSessionSummary
    \/ CalculateSessionVpoc
    \/ ReloadRevisedFile
    \/ RecomputeSessionVpoc

SpecRecompute == Init /\ [][NextRecompute]_vars

\* The same batch with calculate_tpo_metrics called with a period of ten
\* minutes or with the configured one, on ticks at the start of Monday and
\* around 08:50, where the 53rd ten-minute period after midnight ends.
TpoPeriods == {10, TPO_PERIOD_MINUTES}
LongSpanTimes == { HM(0, 0), HM(8, 45), HM(8, 55) }

PeriodInit ==
    /\ pc = "load"
    /\ tick_df = <<>>
    /\ session_df = NoDf
    /\ tpo_locals = <<>>
    /\ HistIdle
    /\ sim = SimIdle
    /\ tpo_period_minutes \in TpoPeriods

ReadLongSpanBar ==
    /\ pc = "load"
    /\ Len(tick_df) < MaxTicks
    /\ \E ts \in LongSpanTimes, low \in TickPrices, high \in TickPrices :
          /\ IF tick_df = <<>> THEN TRUE ELSE ts >= tick_df[Len(tick_df)].Timestamp
          /\ low <= high
          /\ tick_df' = Append(tick_df, MakeTick(ts, high, low, high, 1))
    /\ UNCHANGED <<pc, session_df, tpo_locals, h_pc, h_valid, h_st, h_out, sim,
                   tpo_period_minutes>>

NextPeriod ==
    \/ ReadLongSpanBar
    \/ CalculateSessionSummary
    \/ CalculateSessionVpoc
    \/ CalculateTpoMetrics

SpecPeriod == PeriodInit /\ [][NextPeriod]_vars

----------------------------------------------------------------------------
(* The metrics block of calculate_tpo_metrics on a given histogram, the    *)
(* value-area loop one pass at a time.                                     *)

HistInit ==
    /\ pc = "tpo"
    /\ tick_df = <<>>
    /\ session_df = NoDf
    /\ tpo_locals = <<>>
    /\ h_pc = "profile"
    /\ h_valid = <<>>
    /\ h_st = VaIdle
    /\ h_out = NaTpo
    /\ sim = SimIdle
    /\ tpo_period_minutes = TPO_PERIOD_MINUTES

\* The profile yields its next level with a non-zero count, above the
\* levels it has yielded.
HistLevel ==
    /\ h_pc = "profile"
    /\ Len(h_valid) < MaxLevels
    /\ \E gap \in LevelGaps, count \in 1..MaxCount :
          h_valid' = Append(h_valid,
                        [level |-> IF h_valid = <<>> THEN PRICE_STEP
                                   ELSE h_valid[Len(h_valid)].level + gap * PRICE_STEP,
                         count |-> count])
    /\ UNCHANGED <<pc, tick_df, session_df, tpo_locals, h_pc, h_st, h_out, sim,
                   tpo_period_minutes>>

\* tpo_poc_level, target and the locals before the loop
HistPoc ==
    /\ h_pc = "profile"
    /\ h_valid # <<>>
    /\ h_out' = [h_out EXCEPT !.TPO_POC = h_valid[PocIndexLoc(h_valid)].level]
    /\ h_st' = VaStart(h_valid)
    /\ h_pc' = "va"
    /\ UNCHANGED <<pc, tick_df, session_df, tpo_locals, h_valid, sim,
                   tpo_period_minutes>>

\* one pass of the while body
HistVaStep ==
    /\ h_pc = "va"
    /\ VaContinue(h_valid, h_st)
    /\ h_st' = VaStep(h_valid, h_st)
    /\ UNCHANGED <<pc, tick_df, session_df, tpo_locals, h_pc, h_valid, h_out, sim,
                   tpo_period_minutes>>

\* the loop is left: val_level and vah_level
HistVaEnd ==
    /\ h_pc = "va"
    /\ ~VaContinue(h_valid, h_st)
    /\ h_out' = [h_out EXCEPT !.VAL = ValOf(h_valid, h_st), !.VAH = VahOf(h_valid, h_st)]
    /\ h_pc' = "sp"
    /\ UNCHANGED <<pc, tick_df, session_df, tpo_locals, h_valid, h_st, sim,
                   tpo_period_minutes>>

\* single-print detection
HistSinglePrints ==
    /\ h_pc = "sp"
    /\ LET has_sp    == HasSinglePrints(h_valid)
           sp_levels == SinglePrintLevels(h_valid)
       IN  h_out' = [h_out EXCEPT
                       !.SinglePrints = has_sp,
                       !.SP_High = IF has_sp THEN sp_levels[Len(sp_levels)] ELSE NaN,
                       !.SP_Low  = IF has_sp THEN sp_levels[1] ELSE NaN]
    /\ h_pc' = "done"
    /\ UNCHANGED <<pc, tick_df, session_df, tpo_locals, h_valid, h_st, sim,
                   tpo_period_minutes>>

HistNext ==
    \/ HistLevel
    \/ HistPoc
    \/ HistVaStep
    \/ HistVaEnd
    \/ HistSinglePrints

SpecHist == HistInit /\ [][HistNext]_vars

\* The loop is a sequential while: a pass that can run does run.
FairSpecHist == SpecHist /\ WF_vars(HistNext)

----------------------------------------------------------------------------
(* The trade simulators of the back-tests.  A trade is entered on the      *)
(* first row of its price stream `sub`; the management loop then reads the *)
(* rows in order.  Times are minutes since that first row.  Every row      *)
(* carries one unit of volume.                                             *)

MaxRows == 3

\* The gap to the next row: half an hour or six hours.
SimTimeSteps == {30, 360}

SimRow(ts, price) == [ts |-> ts, price |-> price, Volume |-> 1]

\* The trade as the statements before the loop leave it.
SimOpen(kind, direction, entry_px, stop_px, target_px, tgt_mid, expire_ts, risk, first) ==
    [state |-> "build", kind |-> kind, direction |-> direction,
     entry_px |-> entry_px, stop_px |-> stop_px, initial_stop |-> stop_px,
     target_px |-> target_px, tgt_mid |-> tgt_mid, expire_ts |-> expire_ts,
     risk |-> risk, hit |-> FALSE, sub |-> <<first>>, i |-> 1,
     exit_px |-> NaN, exit_ts |-> NaN, reason |-> "none", result |-> 0]

\* The prices each back-test's stream takes after its first row: the
\* levels of the trade and prices on either side of them.
SimPrices(s) ==
    CASE s.kind = "chunkyfade"     -> {75, 94, 100, 106, 125}
      [] s.kind = "keylevel_fade"  -> {74, 90, 100, 110, 126}
      [] s.kind = "mondayrotation" -> {89, 90, 100, 110, 111}
      [] s.kind \in {"single_print_debug", "SP_Retest"} ->
                                    {94, 96, 98, 100, 102, 104, 106}
      [] s.kind = "monrotatev2"    ->
            { s.entry_px + s.direction * k : k \in {0 - 6, 0, 3, 10, 20} }

MutLoopRunsNoBreak(s) == s.state \in {"open", "closed"} /\ s.i <= Len(s.sub)

\* for row in sub.itertuples(): the loop reads row i unless a break or a
\* return has left it.
LoopRuns(s) == s.state = "open" /\ s.i <= Len(s.sub)

\* The loop ended without a break.
LoopExhausted(s) == s.state = "open" /\ s.i > Len(s.sub)

LastRow(s) == s.sub[Len(s.sub)]

\* ---- chunkyfade.py ------------------------------------------------------
\* STOP_ASR = 0.6 and TARGET_ASR = 2.5 in tenths; HOLD_HOURS; FEE_TICKS.
Chunky_STOP_ASR == 6
Chunky_TARGET_ASR == 25
Chunky_HOLD_HOURS == 6
Chunky_FEE_TICKS == 4

\* exit_px, exit_ts, reason = ...; break, and the pnl after the loop.
Chunky_exit(s, px, ts, reason) ==
    [s EXCEPT !.state = "closed", !.i = @ + 1,
              !.exit_px = px, !.exit_ts = ts, !.reason = reason,
              !.result = (px - s.entry_px) * (0 - s.direction) - Chunky_FEE_TICKS]

Chunky_body(s, row) ==
    LET p == row.price
    IN  IF \/ s.direction = 1 /\ p >= s.stop_px
           \/ s.direction = -1 /\ p <= s.stop_px
        THEN Chunky_exit(s, s.stop_px, row.ts, "stop")
        ELSE IF \/ s.direction = 1 /\ p <= s.target_px
                \/ s.direction = -1 /\ p >= s.target_px
        THEN Chunky_exit(s, p, row.ts, "target")
        ELSE IF row.ts >= s.expire_ts
        THEN Chunky_exit(s, p, row.ts, "timeout")
        ELSE [s EXCEPT !.i = @ + 1]

Chunky_fallback(s) ==
    Chunky_exit(s, LastRow(s).price, LastRow(s).ts, "session_end")

\* The first qualifying touch: the level, the session's ASR30 and the side
\* the price drifted in from.
ChunkyfadeEnter ==
    /\ sim.state = "idle"
    /\ \E direction \in {1, -1}, ASR30 \in {0, 10} :
          LET level == 100
              entry == 100
          IN  sim' = SimOpen("chunkyfade", direction, entry,
                             level + direction * ((Chunky_STOP_ASR * ASR30) \div 10),
                             entry - direction * ((Chunky_TARGET_ASR * ASR30) \div 10),
                             NaN, Chunky_HOLD_HOURS * 60, NaN,
                             SimRow(0, entry))
    /\ UNCHANGED <<pc, tick_df, session_df, tpo_locals, h_pc, h_valid, h_st, h_out,
                   tpo_period_minutes>>

\* ---- indicator_keylevel_fade.py ----------------------------------------
\* STOP_MAP in ticks, TARGET_MAP in tenths, HOLD_HOURS.
Keylevel_STOP_MAP == [MonthlyOpen |-> 26, WeeklyOpen |-> 25, QuarterlyOpen |-> 25]
Keylevel_TARGET_MAP == [MonthlyOpen |-> 30, WeeklyOpen |-> 5, QuarterlyOpen |-> 5]
Keylevel_HOLD_HOURS == 2

RECURSIVE CumSum(_, _, _)
CumSum(sub, n, weighted) ==
    IF n = 0 THEN 0
    ELSE CumSum(sub, n - 1, weighted)
         + (IF weighted THEN sub[n].price * sub[n].Volume ELSE sub[n].Volume)

\* price beyond target_px = entry_px - direction * TARGET_MAP * dist_vwap,
\* with vwap = cumsum(Last * Volume) / cumsum(Volume) through row n; both
\* sides are multiplied by 10 * cumsum(Volume).
Keylevel_target(s, n) ==
    LET pv   == CumSum(s.sub, n, TRUE)
        v    == CumSum(s.sub, n, FALSE)
        d    == s.entry_px * v - pv
        dist == IF d < 0 THEN 0 - d ELSE d
        lhs  == 10 * s.sub[n].price * v
        rhs  == 10 * s.entry_px * v - s.direction * s.target_px * dist
    IN  \/ s.direction = 1 /\ lhs <= rhs
        \/ s.direction = -1 /\ lhs >= rhs

Keylevel_exit(s, px, ts, reason) ==
    [s EXCEPT !.state = "closed", !.i = @ + 1,
              !.exit_px = px, !.exit_ts = ts, !.reason = reason,
              !.result = (px - s.entry_px) * (0 - s.direction)]

\* target_px of the record holds TARGET_MAP[lvl_name].
Keylevel_body(s, row) ==
    LET price == row.price
    IN  IF s.i = 1 THEN [s EXCEPT !.i = @ + 1]
        ELSE IF \/ s.direction = 1 /\ price >= s.stop_px
                \/ s.direction = -1 /\ price <= s.stop_px
        THEN Keylevel_exit(s, s.stop_px, row.ts, "stop")
        ELSE IF Keylevel_target(s, s.i)
        THEN Keylevel_exit(s, price, row.ts, "target")
        ELSE IF row.ts >= s.expire_ts
        THEN Keylevel_exit(s, price, row.ts, "timeout")
        ELSE [s EXCEPT !.i = @ + 1]

Keylevel_fallback(s) ==
    Keylevel_exit(s, LastRow(s).price, LastRow(s).ts, "session_end")

KeylevelFadeEnter ==
    /\ sim.state = "idle"
    /\ \E direction \in {1, -1}, lvl_name \in {"MonthlyOpen", "WeeklyOpen"} :
          LET level    == 100
              entry_px == 100
          IN  sim' = SimOpen("keylevel_fade", direction, entry_px,
                             level + direction * Keylevel_STOP_MAP[lvl_name],
                             Keylevel_TARGET_MAP[lvl_name],
                             NaN, Keylevel_HOLD_HOURS * 60, NaN,
                             SimRow(0, entry_px))
    /\ UNCHANGED <<pc, tick_df, session_df, tpo_locals, h_pc, h_valid, h_st, h_out,
                   tpo_period_minutes>>

\* ---- mondayrotation.py --------------------------------------------------
\* STOP_FACTOR = 0.3 in tenths, MAX_HOURS, FEE_TICKS, and 1 / TICKVALUE.
Monday_STOP_FACTOR == 3
Monday_MAX_HOURS == 12
Monday_FEE_TICKS == 4
Monday_TICKS_PER_UNIT == 10
SCALE_OUT_MID == TRUE

\* pnl_ticks after the loop; risk holds stop_ticks.
Monday_exit(s, px, ts, reason) ==
    [s EXCEPT !.state = "closed", !.i = @ + 1,
              !.exit_px = px, !.exit_ts = ts, !.reason = reason,
              !.result = (px - s.entry_px) * s.direction * Monday_TICKS_PER_UNIT
                         - Monday_FEE_TICKS]

Monday_body(s, r) ==
    LET price   == r.price
        hit_mid == \/ s.direction = -1 /\ price <= s.tgt_mid
                   \/ s.direction = 1 /\ price >= s.tgt_mid
    IN  IF \/ s.direction = -1 /\ price >= s.stop_px
           \/ s.direction = 1 /\ price <= s.stop_px
        THEN Monday_exit(s, s.stop_px, r.ts, "stop")
        ELSE IF SCALE_OUT_MID /\ ~s.hit /\ hit_mid
        THEN [s EXCEPT !.hit = TRUE, !.stop_px = s.entry_px, !.i = @ + 1]
        ELSE IF \/ s.direction = -1 /\ price <= s.target_px
                \/ s.direction = 1 /\ price >= s.target_px
        THEN Monday_exit(s, price, r.ts, "target")
        ELSE IF r.ts >= s.expire_ts
        THEN Monday_exit(s, price, r.ts, "timer")
        ELSE [s EXCEPT !.i = @ + 1]

Monday_fallback(s) ==
    Monday_exit(s, LastRow(s).price, LastRow(s).ts, "week_end")

\* The bar that closes back inside Monday's range (90..110, mid 100) after
\* a break-out above it (direction -1) or below it (direction 1).
MondayRotationEnter ==
    /\ sim.state = "idle"
    /\ \E direction \in {1, -1} :
          LET hi       == 110
              lo       == 90
              mid      == 100
              rng      == hi - lo
              entry_px == mid - direction * 5
          IN  sim' = SimOpen("mondayrotation", direction, entry_px,
                             entry_px - direction * ((Monday_STOP_FACTOR * rng) \div 10),
                             IF direction = -1 THEN lo ELSE hi,
                             mid, Monday_MAX_HOURS * 60,
                             ((Monday_STOP_FACTOR * rng) \div 10) * Monday_TICKS_PER_UNIT,
                             SimRow(0, entry_px))
    /\ UNCHANGED <<pc, tick_df, session_df, tpo_locals, h_pc, h_valid, h_st, h_out,
                   tpo_period_minutes>>

\* ---- simulate_trade (single_print_debug.py, SP_Retest.py) ---------------
\* BE_AFTER_MIN and the default of --be; TP2_R.  R multiples are kept in
\* hundredths.
BE_AFTER_MIN == 60
TP2_R == 2

\* return R, reason, hold: the function returns no exit price.
Simulate_return(s, R100, reason, t) ==
    [s EXCEPT !.state = "closed", !.i = @ + 1,
              !.exit_ts = t, !.reason = reason, !.result = R100]

\* tp1_hit is read before any assignment (SP_Retest.py only).
Simulate_raise(s) ==
    [s EXCEPT !.state = "raised", !.i = @ + 1, !.reason = "UnboundLocalError"]

\* One pass of the loop; the side is told from sl against entry each time
\* it is needed.  `bound` says whether tp1_hit has a value before the loop.
Simulate_body(s, row, bound) ==
    LET p       == row.price
        t       == row.ts
        short   == s.stop_px > s.entry_px
        stopped == IF short THEN p >= s.stop_px ELSE p <= s.stop_px
        tp1_now == IF short THEN p <= s.tgt_mid ELSE p >= s.tgt_mid
        tp1_hit == s.hit \/ tp1_now
        sl      == IF tp1_hit \/ (t - s.sub[1].ts) * 60 >= s.expire_ts * 60
                   THEN s.entry_px ELSE s.stop_px
        short2  == sl > s.entry_px
        tp2_now == IF short2 THEN p <= s.target_px ELSE p >= s.target_px
    IN  IF stopped THEN Simulate_return(s, 0 - 100, "stop", t - s.sub[1].ts)
        ELSE IF ~bound /\ ~tp1_hit THEN Simulate_raise(s)
        ELSE IF tp2_now THEN Simulate_return(s, TP2_R * 100, "target2", t - s.sub[1].ts)
        ELSE [s EXCEPT !.hit = tp1_hit, !.stop_px = sl, !.i = @ + 1]

Simulate_fallback(s) ==
    Simulate_return(s, 0, "timer", LastRow(s).ts - s.sub[1].ts)

\* A fade at the edge of a single-print session: entry 100, the stop two
\* units beyond it, tp1 and tp2 one and two risks in favour.  The stream
\* is the day's ticks.  expire_ts holds be_after.
SimulateTradeEnter ==
    /\ sim.state = "idle"
    /\ \E kind \in {"single_print_debug", "SP_Retest"}, side \in {1, -1},
          first \in {98, 100, 102} :
          LET entry == 100
              sl    == entry - side * 2
              tp1   == entry + (entry - sl)
              tp2   == entry + TP2_R * (entry - sl)
          IN  sim' = SimOpen(kind, side, entry, sl, tp2, tp1, BE_AFTER_MIN,
                             2, SimRow(0, first))
    /\ UNCHANGED <<pc, tick_df, session_df, tpo_locals, h_pc, h_valid, h_st, h_out,
                   tpo_period_minutes>>

\* ---- monrotatev2.py -----------------------------------------------------
\* STOP_PCT, ATR_THRESH_PCT and HALF_CLOSE_PCT in hundredths; the others
\* as written.
V2_STOP_PCT == 30
V2_ATR_WINDOW_MIN == 30
V2_ATR_THRESH_PCT == 15
V2_MIN_HOLD_HRS == 4
V2_HARD_TIMER_HRS == 24
V2_HALF_CLOSE_PCT == 50

\* round(num / den, 2) in hundredths, halves to the even one.
Round2(num, den) ==
    LET n == IF num < 0 THEN 0 - num ELSE num
        q == (100 * n) \div den
        r == (100 * n) % den
        up == 2 * r > den \/ (2 * r = den /\ q % 2 = 1)
        m == IF up THEN q + 1 ELSE q
    IN  IF num < 0 THEN 0 - m ELSE m

\* atr_slice(ticks.loc[ts - ATR_WINDOW_MIN : ts]) of row n
V2_atr_now(sub, n) ==
    LET window == { sub[j].price : j \in
                      { k \in 1..Len(sub) : /\ sub[k].ts >= sub[n].ts - V2_ATR_WINDOW_MIN
                                            /\ sub[k].ts <= sub[n].ts } }
    IN  SetMax(window) - SetMin(window)

\* The statements after the loop: pnl, net_R (in hundredths) and the
\* renamed reason.  tgt_mid holds monday_mid - the record's target_px the
\* level of the full rotation.
V2_exit(s, reason, px, ts) ==
    LET pnl         == (px - s.entry_px) * s.direction
        size_factor == IF s.hit THEN V2_HALF_CLOSE_PCT ELSE 100
        net_R       == IF reason = "target_full"
                       THEN Round2(pnl, s.risk)
                       ELSE Round2(size_factor * pnl, 100 * s.risk)
    IN  [s EXCEPT !.state = "closed", !.i = @ + 1,
                  !.exit_px = px, !.exit_ts = ts,
                  !.reason = IF reason = "atr_timer" /\ s.hit /\ pnl = 0
                             THEN "target_mid" ELSE reason,
                  !.result = net_R]

V2_body(s, row) ==
    LET px      == row.price
        ts      == row.ts
        elapsed == ts - s.sub[1].ts
        \* monday_range, from the two levels the record holds
        monday_range == 2 * (IF s.target_px > s.tgt_mid THEN s.target_px - s.tgt_mid
                             ELSE s.tgt_mid - s.target_px)
        hit_now == /\ ~s.hit
                   /\ \/ s.direction = 1 /\ px <= s.tgt_mid
                      \/ s.direction = -1 /\ px >= s.tgt_mid
        moved   == IF hit_now
                   THEN [s EXCEPT !.hit = TRUE, !.stop_px = s.entry_px]
                   ELSE s
    IN  IF \/ s.direction = 1 /\ px <= s.stop_px
           \/ s.direction = -1 /\ px >= s.stop_px
        THEN V2_exit(s, "stop", px, ts)
        ELSE IF \/ s.direction = 1 /\ px <= s.target_px
                \/ s.direction = -1 /\ px >= s.target_px
        THEN V2_exit(s, "target_full", px, ts)
        ELSE IF /\ elapsed >= V2_MIN_HOLD_HRS * 60
                /\ 100 * V2_atr_now(s.sub, s.i) < V2_ATR_THRESH_PCT * monday_range
        THEN V2_exit(moved, "atr_timer", px, ts)
        ELSE [moved EXCEPT !.i = @ + 1]

\* exit_reason, exit_px, exit_ts keep the values given before the loop.
V2_fallback(s) == V2_exit(s, "timer24h", LastRow(s).price, LastRow(s).ts)

\* A NewYork session that broke out of Monday's range (90..110): below it
\* for direction 1, above it for direction -1; it closed five beyond the
\* range.  The stream is the ticks from the start of the session.
MonRotateV2Enter ==
    /\ sim.state = "idle"
    /\ \E direction \in {1, -1}, away \in {10, 20} :
          LET monday_high  == 110
              monday_low   == 90
              monday_mid   == (monday_high + monday_low) \div 2
              monday_range == monday_high - monday_low
              entry_px     == IF direction = 1 THEN monday_low - 5 ELSE monday_high + 5
              stop_px      == entry_px - direction * ((V2_STOP_PCT * monday_range) \div 100)
              risk         == IF entry_px > stop_px THEN entry_px - stop_px
                              ELSE stop_px - entry_px
          IN  sim' = SimOpen("monrotatev2", direction, entry_px, stop_px,
                             IF direction = 1 THEN monday_low ELSE monday_high,
                             monday_mid, V2_HARD_TIMER_HRS * 60, risk,
                             SimRow(0, entry_px + direction * away))
    /\ UNCHANGED <<pc, tick_df, session_df, tpo_locals, h_pc, h_valid, h_st, h_out,
                   tpo_period_minutes>>

\* ---- the stream and the loop -------------------------------------------

SimBody(s, row) ==
    CASE s.kind = "chunkyfade"    -> Chunky_body(s, row)
      [] s.kind = "keylevel_fade" -> Keylevel_body(s, row)
      [] s.kind = "mondayrotation" -> Monday_body(s, row)
      [] s.kind = "single_print_debug" -> Simulate_body(s, row, TRUE)
      [] s.kind = "SP_Retest" -> Simulate_body(s, row, FALSE)
      [] s.kind = "monrotatev2" -> V2_body(s, row)

SimFallback(s) ==
    CASE s.kind = "chunkyfade"    -> Chunky_fallback(s)
      [] s.kind = "keylevel_fade" -> Keylevel_fallback(s)
      [] s.kind = "mondayrotation" -> Monday_fallback(s)
      [] s.kind \in {"single_print_debug", "SP_Retest"} -> Simulate_fallback(s)
      [] s.kind = "monrotatev2" -> V2_fallback(s)

\* The next row of the stream the back-test slices before the loop.
SimReadRow ==
    /\ sim.state = "build"
    /\ Len(sim.sub) < MaxRows
    /\ \E price \in SimPrices(sim), dt \in SimTimeSteps :
          sim' = [sim EXCEPT !.sub = Append(@, SimRow(LastRow(sim).ts + dt, price))]
    /\ UNCHANGED <<pc, tick_df, session_df, tpo_locals, h_pc, h_valid, h_st, h_out,
                   tpo_period_minutes>>

\* The loop starts on the stream as sliced.
SimStart ==
    /\ sim.state = "build"
    /\ sim' = [sim EXCEPT !.state = "open"]
    /\ UNCHANGED <<pc, tick_df, session_df, tpo_locals, h_pc, h_valid, h_st, h_out,
                   tpo_period_minutes>>

SimStep ==
    /\ sim.state # "idle"
    /\ LoopRuns(sim)
    /\ sim' = SimBody(sim, sim.sub[sim.i])
    /\ UNCHANGED <<pc, tick_df, session_df, tpo_locals, h_pc, h_valid, h_st, h_out,
                   tpo_period_minutes>>

SimEnd ==
    /\ sim.state # "idle"
    /\ LoopExhausted(sim)
    /\ sim' = SimFallback(sim)
    /\ UNCHANGED <<pc, tick_df, session_df, tpo_locals, h_pc, h_valid, h_st, h_out,
                   tpo_period_minutes>>

SimNext ==
    \/ ChunkyfadeEnter
    \/ KeylevelFadeEnter
    \/ MondayRotationEnter
    \/ SimulateTradeEnter
    \/ MonRotateV2Enter
    \/ SimReadRow
    \/ SimStart
    \/ SimStep
    \/ SimEnd

SpecSim == Init /\ [][SimNext]_vars

----------------------------------------------------------------------------
(* Properties of the profile the batch builds (Spec).                      *)

\* The sessions the TPO pass has processed, those whose profile it built
\* and those for which it computed the metrics.
Processed == IF "TPO" \in session_df.columns THEN DOMAIN tpo_locals ELSE {}
Built == { k \in Processed : tpo_locals[k].available }
Computed == { k \in Built : session_df.tpo[k].TPO_POC # NaN }

\* The bins of a session, from its summary row alone: bin b is the
\* half-open period [first + (b-1)p, first + b p).
FirstEdge(k) == FloorTo(session_df.row[k].SessionStart, TPO_PERIOD_MINUTES)
NumBins(k) ==
    (CeilTo(session_df.row[k].SessionEnd, TPO_PERIOD_MINUTES) - FirstEdge(k))
        \div TPO_PERIOD_MINUTES
BinTicks(k, b) ==
    { i \in DOMAIN tick_df :
        /\ tick_df[i].Timestamp >= session_df.row[k].SessionStart
        /\ tick_df[i].Timestamp <= session_df.row[k].SessionEnd
        /\ tick_df[i].Timestamp >= FirstEdge(k) + (b - 1) * TPO_PERIOD_MINUTES
        /\ tick_df[i].Timestamp <  FirstEdge(k) + b * TPO_PERIOD_MINUTES }
BinLow(k, b) == SetMin({ tick_df[i].Low : i \in BinTicks(k, b) })
BinHigh(k, b) == SetMax({ tick_df[i].High : i \in BinTicks(k, b) })
BinsWithTicks(k) == { b \in 1..NumBins(k) : BinTicks(k, b) # {} }

\* Every level of the price grid the ticks can reach, and two above.
GridLevels == { i * PRICE_STEP : i \in 0..(MaxPrice \div 2 + 3) }

LettersAt(k, l) ==
    IF l \in DOMAIN tpo_locals[k].profile.letters_at_price
    THEN tpo_locals[k].profile.letters_at_price[l]
    ELSE {}

InBinRange(k, b, l) ==
    /\ BinTicks(k, b) # {}
    /\ FloorTo(BinLow(k, b), PRICE_STEP) <= l
    /\ l < CeilTo(BinHigh(k, b), PRICE_STEP)

RECURSIVE SumOver(_, _)
SumOver(f, S) ==
    IF S = {} THEN 0
    ELSE LET x == CHOOSE y \in S : TRUE IN f[x] + SumOver(f, S \ {x})

\* C1: a bin's letter is recorded at a grid level, and the level's count
\* includes the bin, exactly when floor(bin low) <= level < ceil(bin high);
\* the rounded-up high itself is not touched.
C1_TouchedIffInRange ==
    \A k \in Built : \A l \in GridLevels :
        /\ \A b \in 1..NumBins(k) : (b \in LettersAt(k, l)) <=> InBinRange(k, b, l)
        /\ l \in DOMAIN tpo_locals[k].profile.tpo_counts =>
              tpo_locals[k].profile.tpo_counts[l]
                 = Cardinality({ b \in 1..NumBins(k) : InBinRange(k, b, l) })

\* A bin whose high is on the grid: the level below it is touched, the
\* rounded-up high is a level of the profile and is not touched.
C1_Witness ==
    \E k \in Built : \E b \in BinsWithTicks(k) :
        LET top == CeilTo(BinHigh(k, b), PRICE_STEP)
        IN  /\ top = BinHigh(k, b)
            /\ top \in DOMAIN tpo_locals[k].profile.letters_at_price
            /\ b \notin LettersAt(k, top)
            /\ b \in LettersAt(k, top - PRICE_STEP)

\* C5: in every session whose metrics were computed, the touch counts sum
\* to at least the number of bins that hold a tick.
C5_SumCoversBinsWithTicks ==
    \A k \in Computed :
        SumOver(tpo_locals[k].profile.tpo_counts,
                DOMAIN tpo_locals[k].profile.tpo_counts)
           >= Cardinality(BinsWithTicks(k))

\* C6: the count of every level is the number of distinct letters recorded
\* for it, the letters are bins of the session, and no count exceeds the
\* number of bins.
C6_CountIsDistinctLetters ==
    \A k \in Built : \A l \in DOMAIN tpo_locals[k].profile.tpo_counts :
        /\ tpo_locals[k].profile.tpo_counts[l] = Cardinality(LettersAt(k, l))
        /\ LettersAt(k, l) \subseteq 1..NumBins(k)
        /\ tpo_locals[k].profile.tpo_counts[l] <= NumBins(k)

\* Two ticks of one bin reach the same level, which counts the bin once.
C6_Witness ==
    \E k \in Built : \E b \in BinsWithTicks(k) : \E l \in GridLevels :
        /\ \E i, j \in BinTicks(k, b) :
              /\ i # j
              /\ FloorTo(tick_df[i].Low, PRICE_STEP) <= l /\ l < tick_df[i].High
              /\ FloorTo(tick_df[j].Low, PRICE_STEP) <= l /\ l < tick_df[j].High
        /\ tpo_locals[k].profile.tpo_counts[l] = 1

\* The bins holding a tick whose High (Low) lies in the price level that
\* contains the session's high (low).
BinsAtHigh(k) ==
    { b \in 1..NumBins(k) : \E i \in BinTicks(k, b) :
        FloorTo(tick_df[i].High, PRICE_STEP)
           = FloorTo(session_df.row[k].SessionHigh, PRICE_STEP) }
BinsAtLow(k) ==
    { b \in 1..NumBins(k) : \E i \in BinTicks(k, b) :
        FloorTo(tick_df[i].Low, PRICE_STEP)
           = FloorTo(session_df.row[k].SessionLow, PRICE_STEP) }

\* C7: PoorHigh (PoorLow) is set exactly when at least
\* POOR_EXTREME_TPO_THRESHOLD bins hold a tick whose High (Low) lies in the
\* level of the session high (low).
C7_PoorExtremes ==
    \A k \in Computed :
        /\ session_df.tpo[k].PoorHigh
              <=> Cardinality(BinsAtHigh(k)) >= POOR_EXTREME_TPO_THRESHOLD
        /\ session_df.tpo[k].PoorLow
              <=> Cardinality(BinsAtLow(k)) >= POOR_EXTREME_TPO_THRESHOLD

\* The ticks of the first INITIAL_BALANCE_PERIODS bins of a session.
IbBinTicks(k) ==
    UNION { BinTicks(k, b) : b \in { c \in 1..NumBins(k) : c <= INITIAL_BALANCE_PERIODS } }

\* C9: IB_High and IB_Low are the highest High and the lowest Low of the
\* ticks of the first INITIAL_BALANCE_PERIODS bins.
C9_InitialBalance ==
    \A k \in Processed :
        IF IbBinTicks(k) = {}
        THEN session_df.tpo[k].IB_High = NaN /\ session_df.tpo[k].IB_Low = NaN
        ELSE /\ session_df.tpo[k].IB_High = SetMax({ tick_df[i].High : i \in IbBinTicks(k) })
             /\ session_df.tpo[k].IB_Low = SetMin({ tick_df[i].Low : i \in IbBinTicks(k) })

----------------------------------------------------------------------------
(* The volume point of control of the batch (SpecTrades).                  *)

\* The summed volume of the ticks of a session at a rounded price, and
\* the rounded prices of the session.
VolumeOf(k, l) ==
    SumVolume(SelectSeq(TicksOf(tick_df, k[1], k[2]), LAMBDA t : Round1(t.Close) = l))
TradedLevels(k) ==
    { Round1(tick_df[i].Close) :
        i \in { j \in DOMAIN tick_df :
                  tick_df[j].Date = k[1] /\ k[2] \in Range(tick_df[j].Sessions) } }
MaxVolumeLevels(k) ==
    { l \in TradedLevels(k) :
        /\ VolumeOf(k, l) > 0
        /\ \A m \in TradedLevels(k) : VolumeOf(k, m) <= VolumeOf(k, l) }

\* C10: SessionVPOC is the lowest of the rounded last-trade prices with the
\* greatest summed volume among the ticks of the (date, session), and null
\* when no price has positive volume; nothing but the session's closes and
\* volumes enters it.
C10_SessionVpoc ==
    "SessionVPOC" \in session_df.columns =>
        \A k \in session_df.keys :
            session_df.SessionVPOC[k]
               = IF MaxVolumeLevels(k) = {} THEN NaN ELSE SetMin(MaxVolumeLevels(k))

\* Two prices tie for the greatest volume and the lower one is the VPOC.
C10_Witness ==
    /\ "SessionVPOC" \in session_df.columns
    /\ \E k \in session_df.keys :
          /\ Cardinality(MaxVolumeLevels(k)) >= 2
          /\ session_df.SessionVPOC[k] = SetMin(MaxVolumeLevels(k))

----------------------------------------------------------------------------
(* Value area, POC and single prints of a histogram (SpecHist).            *)

HistCount(i) == h_valid[i].count
HistMaxCount == SetMax({ HistCount(i) : i \in DOMAIN h_valid })
HistTarget == (SeqSum([i \in DOMAIN h_valid |-> HistCount(i)]) * VALUE_AREA_PERCENT) \div 100
HistTaken == SeqSum([i \in DOMAIN h_valid |-> IF i \in h_st.va_indices THEN HistCount(i) ELSE 0])

\* The choice of one expansion step from the band taken so far.
NextAbove == SetMax(h_st.va_indices) + 1
NextBelow == SetMin(h_st.va_indices) - 1
ExpectedPick ==
    IF NextAbove <= Len(h_valid) /\ NextBelow >= 1
    THEN IF HistCount(NextAbove) >= HistCount(NextBelow) THEN NextAbove ELSE NextBelow
    ELSE IF NextAbove <= Len(h_valid) THEN NextAbove ELSE NextBelow

C2_Step ==
    /\ (h_pc = "profile" /\ h_pc' = "va") =>
          \E i \in DOMAIN h_valid :
             /\ h_valid[i].level = h_out'.TPO_POC
             /\ h_st'.va_indices = {i}
    /\ (h_pc = "va" /\ h_st' # h_st) =>
          h_st'.va_indices = h_st.va_indices \cup {ExpectedPick}

C3_PocIsFirstMax ==
    h_pc # "profile" =>
        h_out.TPO_POC
           = SetMin({ h_valid[i].level : i \in { j \in DOMAIN h_valid : HistCount(j) = HistMaxCount } })

\* Several levels share the greatest count.
C3_Witness ==
    /\ h_pc = "done"
    /\ Cardinality({ j \in DOMAIN h_valid : HistCount(j) = HistMaxCount }) >= 2
    /\ h_out.TPO_POC # NaN

C4_NoAddAfterTarget ==
    (h_pc = "va" /\ HistTaken >= HistTarget) => h_st'.va_indices = h_st.va_indices

C4_AtExit ==
    h_pc \in {"sp", "done"} =>
        \/ HistTaken >= HistTarget
        \/ h_st.va_indices = DOMAIN h_valid

\* C4: the expansion ends; nothing is added once the taken count has
\* reached floor(total * fraction); at the end the taken count has reached
\* it or every level is taken.
C4_ExpansionTerminates ==
    /\ <>(h_pc = "done")
    /\ [][C4_NoAddAfterTarget]_vars
    /\ [](C4_AtExit /\ h_st.current_va_tpos = HistTaken)

\* The loop ran and ended below the whole histogram.
C4_Witness ==
    /\ h_pc = "done"
    /\ Cardinality(h_st.va_indices) >= 2
    /\ h_st.va_indices # DOMAIN h_valid
    /\ HistTaken >= HistTarget

\* The single-print levels, their longest run of adjacent grid levels and
\* their span.
SingleLevels == { h_valid[i].level : i \in { j \in DOMAIN h_valid : HistCount(j) = 1 } }
IsRun(l, n) == \A j \in 0..(n - 1) : l + j * PRICE_STEP \in SingleLevels
LongestRun == SetMax({ n \in 1..Len(h_valid) : \E l \in SingleLevels : IsRun(l, n) })
SingleSpan == SetMax(SingleLevels) - SetMin(SingleLevels)

----------------------------------------------------------------------------
(* Session assignment, checked on SpecWeek.                                *)

IsWeekend(ts) == (ts \div MinutesPerDay) % 7 \in {5, 6}

\* The names the session table gives a weekday minute t of the day: a
\* same-day window is the interval start..end-1, an overnight window is
\* the complement of end..start-1.
WindowNames(t) ==
    { SESSIONS[j].name : j \in
        { i \in DOMAIN SESSIONS :
            IF SESSIONS[i].start <= SESSIONS[i].end
            THEN t \in SESSIONS[i].start .. (SESSIONS[i].end - 1)
            ELSE t \notin SESSIONS[i].end .. (SESSIONS[i].start - 1) } }

ExpectedSessions(ts) ==
    IF (ts \div MinutesPerDay) % 7 = 5 THEN {"Weekend-Sat"}
    ELSE IF (ts \div MinutesPerDay) % 7 = 6 THEN {"Weekend-Sun"}
    ELSE WindowNames(ts % MinutesPerDay)

\* C11: every tick carries exactly the session names of its timestamp:
\* the one weekend name on Saturday and on Sunday, and on a weekday the
\* names of all windows that contain its time of day (start <= t < end, or
\* wrapped over midnight), each once and never a Weekend-* name.
C11_ActiveSessions ==
    \A i \in DOMAIN tick_df :
        /\ Range(tick_df[i].Sessions) = ExpectedSessions(tick_df[i].Timestamp)
        /\ Len(tick_df[i].Sessions) = Cardinality(Range(tick_df[i].Sessions))
        /\ ~IsWeekend(tick_df[i].Timestamp) =>
              Range(tick_df[i].Sessions) \cap {"Weekend-Sat", "Weekend-Sun"} = {}

\* A weekday tick on the closing minute of one window inside another, and
\* a weekend tick.
C11_Witness ==
    \E i, j \in DOMAIN tick_df :
        /\ tick_df[i].Timestamp % MinutesPerDay = HM(16, 0)
        /\ tick_df[i].Sessions = <<"NewYork">>
        /\ tick_df[j].Sessions = <<"Weekend-Sat">>

----------------------------------------------------------------------------
(* The trade simulators, checked on SpecSim.                               *)

Managed == sim.state \in {"open", "closed"}
Closed == sim.state = "closed"

\* The first row the loop of the trade examines.
FirstRead == IF sim.kind = "keylevel_fade" THEN 2 ELSE 1

\* The price is at or beyond a level, seen from the side the trade loses
\* (Adverse) or gains (Favourable) on.  A fade with direction 1 is short.
IsShort ==
    IF sim.kind \in {"chunkyfade", "keylevel_fade"} THEN sim.direction = 1
    ELSE sim.direction = -1

Adverse(price, level) == IF IsShort THEN price >= level ELSE price <= level
Favourable(price, level) == IF IsShort THEN price <= level ELSE price >= level

\* vwap of the rows 1..j as the pair <<sum of price * volume, sum of volume>>.
VwapThrough(j) ==
    << SeqSum([n \in 1..j |-> sim.sub[n].price * sim.sub[n].Volume]),
       SeqSum([n \in 1..j |-> sim.sub[n].Volume]) >>

\* The terminal conditions of the fades on row j, from the levels fixed
\* at entry.
FadeStopAt(j) == Adverse(sim.sub[j].price, sim.initial_stop)

FadeTargetAt(j) ==
    IF sim.kind = "chunkyfade"
    THEN Favourable(sim.sub[j].price, sim.target_px)
    ELSE LET w    == VwapThrough(j)
             gap  == sim.entry_px * w[2] - w[1]
             size == IF gap < 0 THEN 0 - gap ELSE gap
         IN  IF IsShort
             THEN 10 * w[2] * (sim.entry_px - sim.sub[j].price) >= sim.target_px * size
             ELSE 10 * w[2] * (sim.sub[j].price - sim.entry_px) >= sim.target_px * size

FadeTimeoutAt(j) == sim.sub[j].ts >= sim.sub[1].ts + sim.expire_ts

FadeTerminalAt(j) == FadeStopAt(j) \/ FadeTargetAt(j) \/ FadeTimeoutAt(j)

FadeTerminals == { j \in FirstRead..Len(sim.sub) : FadeTerminalAt(j) }

IsFade == sim.state # "idle" /\ sim.kind \in {"chunkyfade", "keylevel_fade"}

\* The outcome is the one of the first terminal row, or of the last row
\* when there is none.
C12_Outcome ==
    IsFade /\ Closed =>
        IF FadeTerminals = {}
        THEN /\ sim.reason = "session_end"
             /\ sim.exit_ts = LastRow(sim).ts
             /\ sim.exit_px = LastRow(sim).price
        ELSE LET k == SetMin(FadeTerminals)
             IN  /\ sim.exit_ts = sim.sub[k].ts
                 /\ sim.reason \in {"stop", "target", "timeout"}
                 /\ sim.reason = "stop" => FadeStopAt(k) /\ sim.exit_px = sim.initial_stop
                 /\ sim.reason = "target" => FadeTargetAt(k) /\ sim.exit_px = sim.sub[k].price
                 /\ sim.reason = "timeout" => FadeTimeoutAt(k) /\ sim.exit_px = sim.sub[k].price

C12_Open ==
    IsFade /\ ~Closed =>
        sim.reason = "none" /\ sim.exit_px = NaN /\ sim.exit_ts = NaN

C12_Final ==
    IsFade /\ Closed =>
        /\ sim'.state = "closed"
        /\ sim'.exit_px = sim.exit_px
        /\ sim'.exit_ts = sim.exit_ts
        /\ sim'.reason = sim.reason

\* C12: a trade of the chunkyfade and key-level fade loops is open without
\* an outcome until the first row of its stream that meets a terminal
\* condition (stop, target, timeout), or the end of the stream, gives it
\* exactly one exit price, time and reason; nothing changes them afterwards.
C12_OneOutcome == [](C12_Outcome /\ C12_Open) /\ [][C12_Final]_vars

\* A trade closed by a row that is followed by rows meeting other terminal
\* conditions.
C12_Witness ==
    /\ IsFade /\ Closed
    /\ \E j, k \in FadeTerminals :
          /\ j < k
          /\ sim.exit_ts = sim.sub[j].ts
          /\ sim.reason = "target"
          /\ FadeStopAt(k)

\* Stop and terminal target on the row being read, for the loops with a
\* hard timeout.
FadeOrRotationStop ==
    IF sim.kind = "mondayrotation" THEN Adverse(sim.sub[sim.i].price, sim.stop_px)
    ELSE FadeStopAt(sim.i)
FadeOrRotationTarget ==
    IF sim.kind = "mondayrotation" THEN Favourable(sim.sub[sim.i].price, sim.target_px)
    ELSE FadeTargetAt(sim.i)

\* The row the loop is about to read, and what the claims say of it.
Reading == sim.state = "open" /\ sim.i <= Len(sim.sub)
Row == sim.sub[sim.i]
Elapsed == Row.ts - sim.sub[1].ts

StopBreach == Adverse(Row.price, sim.stop_px)
TargetBreach == Favourable(Row.price, sim.target_px)
TimedOut == Elapsed >= sim.expire_ts

EndsAs(reasons) == sim'.state = "closed" /\ sim'.reason \in reasons

\* C13: on the row being read, a price that breaches both the stop and
\* the target ends the trade as a stop, and a price that breaches the
\* target on a row at or past the timeout ends it as a target (chunkyfade,
\* mondayrotation, simulate_trade of single_print_debug).
C13_Step ==
    /\ sim.state # "idle"
    /\ sim.kind \in {"chunkyfade", "mondayrotation", "single_print_debug"}
    /\ Reading
    => /\ StopBreach /\ TargetBreach => EndsAs({"stop"})
       /\ (~StopBreach /\ TargetBreach /\ sim.kind # "single_print_debug" /\ TimedOut)
             => EndsAs({"target"})

C13_StopTargetTimeoutOrder == [][C13_Step]_vars

\* C14: when the stream is exhausted with the trade still open, the trade
\* is closed at the last price of the stream with reason session_end
\* (chunkyfade, key-level fade, simulate_trade).
C14_Step ==
    /\ sim.state # "idle"
    /\ sim.kind \in {"chunkyfade", "keylevel_fade", "single_print_debug", "SP_Retest"}
    /\ LoopExhausted(sim)
    => /\ EndsAs({"session_end"})
       /\ sim'.exit_px = LastRow(sim).price
       /\ sim'.exit_ts = LastRow(sim).ts

C14_ExhaustedStream == [][C14_Step]_vars

\* C15: in simulate_trade, a row read at or after be_after minutes that
\* ends nothing leaves the stop at the entry price; the stop then stays
\* there, and a later price at the target ends the trade as a target hit.
C15_Step ==
    /\ sim.state # "idle"
    /\ sim.kind \in {"single_print_debug", "SP_Retest"}
    /\ Reading
    => /\ (Elapsed >= BE_AFTER_MIN /\ sim'.state = "open") => sim'.stop_px = sim.entry_px
       /\ (sim.stop_px = sim.entry_px /\ sim'.state = "open") => sim'.stop_px = sim.entry_px
       /\ (sim.stop_px = sim.entry_px /\ TargetBreach) => EndsAs({"target2"})

C15_BreakEven == [][C15_Step]_vars

\* C16: a stop-out of simulate_trade returns -1R when the stop is the
\* initial one and 0R when the stop had been moved to the entry price.
C16_StopOutR ==
    /\ sim.state = "closed"
    /\ sim.kind \in {"single_print_debug", "SP_Retest"}
    /\ sim.reason = "stop"
    => sim.result = IF sim.stop_px = sim.entry_px THEN 0 ELSE 0 - 100

\* C18: a row at or past the hard timeout leaves the trade closed; when
\* neither the stop nor the target is breached on it, the trade exits on
\* that row, at its price, for the timeout (chunkyfade, key-level fade,
\* mondayrotation).
C18_Step ==
    /\ sim.state # "idle"
    /\ sim.kind \in {"chunkyfade", "keylevel_fade", "mondayrotation"}
    /\ Reading
    /\ sim.i >= FirstRead
    /\ TimedOut
    => /\ sim'.state = "closed"
       /\ sim'.exit_ts = Row.ts
       /\ (~FadeOrRotationStop /\ ~FadeOrRotationTarget)
             => sim'.reason \in {"timeout", "timer"} /\ sim'.exit_px = Row.price

C18_HardTimeout == [][C18_Step]_vars

\* C17: a monrotatev2 trade that scaled out at Monday-Mid has as net R the
\* blend of the R of the part closed there (HALF_CLOSE_PCT of the position,
\* taken at the row that reached the mid or at the mid level itself) and
\* the R of the rest at its exit, each over the initial risk.
MidRow(s) ==
    SetMin({ j \in 1..Len(s.sub) :
               \/ s.direction = 1 /\ s.sub[j].price <= s.tgt_mid
               \/ s.direction = -1 /\ s.sub[j].price >= s.tgt_mid })

BlendedR(s, mid_px) ==
    Round2(V2_HALF_CLOSE_PCT * ((mid_px - s.entry_px) * s.direction)
             + (100 - V2_HALF_CLOSE_PCT) * ((s.exit_px - s.entry_px) * s.direction),
           100 * s.risk)

C17_ScaleOutBlend ==
    /\ sim.state = "closed"
    /\ sim.kind = "monrotatev2"
    /\ sim.hit
    => sim.result \in { BlendedR(sim, sim.sub[MidRow(sim)].price),
                        BlendedR(sim, sim.tgt_mid) }

----------------------------------------------------------------------------
(* The session summary over a week, checked on SpecWeek.                   *)

\* The session names that have a window on a date: the weekend name on
\* Saturday and on Sunday, and on a weekday every name whose window
\* contains some minute of the day.
SessionsOnDate(date) ==
    IF date % 7 = 5 THEN {"Weekend-Sat"}
    ELSE IF date % 7 = 6 THEN {"Weekend-Sun"}
    ELSE UNION { WindowNames(t) : t \in WeekClock }

\* C20: once the summary is built, every date of the file has a row for
\* every session that has a window on that date, with or without ticks of
\* that session.
C20_ZeroTickRow ==
    pc # "load" =>
        \A i \in DOMAIN tick_df :
            \A n \in SessionsOnDate(tick_df[i].Date) :
                <<tick_df[i].Date, n>> \in session_df.keys

----------------------------------------------------------------------------
(* Sessions with more periods than letters, checked on SpecPeriod.         *)

\* The number of periods between the floor of the first and the ceiling
\* of the last tick time of a session.
PeriodsOf(k) ==
    (CeilTo(session_df.row[k].SessionEnd, tpo_period_minutes)
       - FloorTo(session_df.row[k].SessionStart, tpo_period_minutes))
        \div tpo_period_minutes

Oversized == { k \in session_df.keys : PeriodsOf(k) > NumTpoLetters }

\* The session table without the rows of some sessions.
WithoutRows(df, drop) ==
    Table(df.keys \ drop,
          [k \in df.keys \ drop |-> df.row[k]],
          df.columns,
          [k \in df.keys \ drop |-> df.SessionVPOC[k]],
          [k \in df.keys \ drop |-> df.tpo[k]])

ProfileUnavailable(r) ==
    /\ r.TPO_POC = NaN /\ r.VAH = NaN /\ r.VAL = NaN
    /\ r.IB_High = NaN /\ r.IB_Low = NaN
    /\ r.PoorHighPrice = NaN /\ r.PoorLowPrice = NaN
    /\ ~r.PoorHigh /\ ~r.PoorLow /\ ~r.SinglePrints

----------------------------------------------------------------------------
(* Sessions shorter than one period, on Spec.                              *)

\* C21: a session whose first and last tick are less than one period
\* apart has the unavailable profile once the metrics are computed.
C21_ShortSessionUnavailable ==
    pc = "done" =>
        \A k \in session_df.keys :
            session_df.row[k].SessionEnd - session_df.row[k].SessionStart
                < tpo_period_minutes
            => ProfileUnavailable(session_df.tpo[k])

----------------------------------------------------------------------------
(* The recomputation pass of the VPOC, on SpecRecompute.                   *)

\* C22: after the second pass every session has as SessionVPOC the VPOC of
\* its ticks as they are now, null when they have none.  (All sessions of
\* the file lie on its first date, so both passes process all of them.)
C22_RecomputeOverwrites ==
    pc = "recomputed" =>
        \A k \in session_df.keys :
            session_df.SessionVPOC[k] = SessionVpocOf(TicksOf(tick_df, k[1], k[2]))

----------------------------------------------------------------------------
(* Malformed records, on SpecRaw.                                          *)

Parsed(t) ==
    /\ t.Timestamp # NaN
    /\ t.High # NaN /\ t.Low # NaN /\ t.Close # NaN

\* C23: every tick the session summary groups has a parsed time and
\* parsed prices, and each session counts its parsed ticks.
C23_MalformedDropped ==
    pc # "load" =>
        \A k \in session_df.keys :
            /\ \A i \in DOMAIN TicksOf(tick_df, k[1], k[2]) :
                  Parsed(TicksOf(tick_df, k[1], k[2])[i])
            /\ session_df.row[k].SessionTicks > 0

----------------------------------------------------------------------------
(* The value area as a band, on SpecHist.                                  *)

\* C24: when the value area is set, VAL <= TPO_POC <= VAH, and the levels
\* of the histogram from VAL to VAH are exactly the levels whose counts
\* were accumulated.
C24_ValueAreaBand ==
    h_pc \in {"sp", "done"} =>
        /\ h_out.VAL <= h_out.TPO_POC
        /\ h_out.TPO_POC <= h_out.VAH
        /\ \A i \in DOMAIN h_valid :
              (h_out.VAL <= h_valid[i].level /\ h_valid[i].level <= h_out.VAH)
                  <=> i \in h_st.va_indices

\* A band of several levels that spans price levels without a count and
\* leaves levels of the histogram outside, below and above it.
C24_Witness ==
    /\ h_pc = "done"
    /\ h_out.VAH - h_out.VAL > PRICE_STEP * (Cardinality(h_st.va_indices) - 1)
    /\ \E i, j \in DOMAIN h_valid :
          h_valid[i].level < h_out.VAL /\ h_valid[j].level > h_out.VAH

----------------------------------------------------------------------------
(* simulate_trade, on SpecSim.                                             *)

\* C25: SP_Retest.simulate_trade never raises, and when it has returned
\* the result is one of its three outcomes.
C25_SimulateReturns ==
    (sim.state # "idle" /\ sim.kind = "SP_Retest") =>
        /\ sim.state # "raised"
        /\ sim.state = "closed" => sim.reason \in {"stop", "target2", "timer"}

----------------------------------------------------------------------------
(* Runs of single prints with a one-level gap, on SpecHist.                *)

\* The longest stretch of successive single-print levels in which each is
\* at most two price steps above the one before it.
NearRun(levels, i, n) ==
    \A j \in i..(i + n - 2) : levels[j + 1] - levels[j] <= 2 * PRICE_STEP

LongestNearRun ==
    LET levels == SortedSeq(SingleLevels)
    IN  SetMax({ n \in 1..Len(levels) :
                   \E i \in 1..(Len(levels) - n + 1) : NearRun(levels, i, n) })

\* C26: the run counted for the flag goes on over a gap of one missing
\* level: SinglePrints is set when some level has count 1 and the longest
\* such run reaches the threshold or the span reaches the minimum span.
C26_RunOverOneLevelGap ==
    h_pc = "done" =>
        (h_out.SinglePrints <=>
            /\ SingleLevels # {}
            /\ \/ LongestNearRun >= SINGLE_PRINT_THRESHOLD
               \/ SingleSpan >= SINGLE_PRINT_MIN_SPAN)

----------------------------------------------------------------------------
(* The targets of monrotatev2, on SpecSim.                                 *)

\* The Monday extreme across the middle from the one the session broke
\* out of (MondayHigh for direction 1, MondayLow for direction -1): the
\* record holds the middle and the broken extreme.
OppositeExtreme(s) == 2 * s.tgt_mid - s.target_px

\* C27: a monrotatev2 trade ends as target_full only at a price at the
\* opposite Monday extreme in its favour (direction 1 at MondayHigh or
\* above, direction -1 at MondayLow or below), and its stop moves to the
\* entry only on a row whose price has reached Monday-Mid in its favour
\* (direction 1 at the middle or above, direction -1 at it or below).
C27_Step ==
    (sim.state = "open" /\ sim.kind = "monrotatev2" /\ Reading) =>
        /\ (sim'.state = "closed" /\ sim'.reason = "target_full") =>
              IF sim.direction = 1 THEN Row.price >= OppositeExtreme(sim)
              ELSE Row.price <= OppositeExtreme(sim)
        /\ (~sim.hit /\ sim'.hit) =>
              IF sim.direction = 1 THEN Row.price >= sim.tgt_mid
              ELSE Row.price <= sim.tgt_mid

C27_FavourableTargets == [][C27_Step]_vars

----------------------------------------------------------------------------
(* The side of a simulate_trade trade, on SpecSim.                         *)

\* The rows the loop has examined when the trade is closed.
RowsRead == { sim.sub[j].price : j \in 1..(sim.i - 1) }

\* C28: simulate_trade returns target2 only when some price of the stream
\* was at tp2 on the side the trade started on (at or below it for a
\* short, direction -1; at or above it for a long).
C28_SideIsKept ==
    /\ sim.state = "closed"
    /\ sim.kind \in {"single_print_debug", "SP_Retest"}
    /\ sim.reason = "target2"
    => \E p \in RowsRead :
          IF sim.direction = -1 THEN p <= sim.target_px ELSE p >= sim.target_px

----------------------------------------------------------------------------
(* The bins as a partition of the session's ticks, on Spec.                *)

\* The ticks of the file from the first to the last tick of a session.
WindowTicks(k) ==
    { i \in DOMAIN tick_df :
        /\ tick_df[i].Timestamp >= session_df.row[k].SessionStart
        /\ tick_df[i].Timestamp <= session_df.row[k].SessionEnd }

\* C29: the profile of a session is built from all ticks of its window:
\* each of them, the last one included, lies in one of its bins and holds
\* that bin's letter.
C29_BinsPartitionTicks ==
    \A k \in Built :
        /\ Len(tpo_locals[k].session_ticks) = Cardinality(WindowTicks(k))
        /\ \A i \in WindowTicks(k) :
              Cardinality({ b \in 1..NumBins(k) : i \in BinTicks(k, b) }) = 1

----------------------------------------------------------------------------
(* The date limit of calculate_tpo_metrics, on SpecLimit.                  *)

\* C30: the call with a date limit leaves the derived columns of every
\* session it does not process as they were before the call.
C30_Step ==
    (pc = "done" /\ pc' = "limited") =>
        \A k \in session_df.keys \ DOMAIN tpo_locals' :
            session_df'.tpo[k] = session_df.tpo[k]

C30_LimitLeavesOtherDates == [][C30_Step]_vars

====
